---- MODULE Spec2Model ----
(***************************************************************************)
(* Model of the VOD tool (src/app.py): the transaction classifier          *)
(* analyze_transactions, the label overlay and visible-row filter of the   *)
(* renderer, and the upload / generate handlers with their transient file  *)
(* storage.                                                                *)
(*                                                                         *)
(* Encodings.  A datetime is the integer YYYYMMDD, so that the order of    *)
(* datetimes is the order of integers and strftime('%Y-%m') is division by *)
(* 100; None is NoDate.  A credit amount is an integer number of cents, so *)
(* that float equality is integer equality and int(amt) is truncation to a *)
(* multiple of 100.  Python list indices are 0-based; sequences here are   *)
(* 1-based, and the overlay of generate_with_labels (which receives        *)
(* 0-based indices from the client) converts explicitly.                   *)
(***************************************************************************)
EXTENDS Integers, Sequences, FiniteSets, TLC

(***************************************************************************)
(* Bounds and input domains                                                *)
(***************************************************************************)
MaxLen == 3

NoDate == 0

UnknownKey == 0

None == "None"

ENROLLMENT_FEE == "ENROLLMENT_FEE"

\* 300 dollars, in cents
EnrollmentLimit == 30000

\* None, two days of January 2024 and one of February 2024
Dates == {NoDate, 20240105, 20240120, 20240205}

\* $500.00, $75.00, -$5.00, $75.50
Amounts == {50000, 7500, -500, 7550}

Descriptions == {"AUTO PMT", "SURPLUS"}

\* the rows kept by parse_rfms_excel; rows described as SURPLUS carry the regular
\* $500.00, rows described as AUTO PMT any of the amounts
RawTransaction ==
    {t \in [date_obj : Dates, Description : Descriptions, credits_float : Amounts] :
        t.Description = "SURPLUS" => t.credits_float = 50000}

TxLists == UNION {[1..n -> RawTransaction] : n \in 0..MaxLen}

\* files per upload request, entries of a labels overlay
MaxBatch == 2

MaxLabels == 1

Deposit(d, a) == [date_obj |-> d, Description |-> "AUTO PMT", credits_float |-> a]

Workbook(name, rows) == [malformed |-> FALSE, Name |-> name, transactions |-> rows]

\* the uploaded workbooks: one whose header rows cannot be read (df_raw.iloc
\* raises); one regular deposit; two catch-up deposits in one month, for the
\* same resident; and, for another resident, the same followed by a $75.00 deposit
Sheets ==
    {[malformed |-> TRUE, Name |-> "DOE, JANE", transactions |-> <<>>],
     Workbook("DOE, JANE", <<Deposit(20240105, 50000)>>),
     Workbook("DOE, JANE", <<Deposit(20240105, 50000), Deposit(20240120, 50000)>>),
     Workbook("ROE, RICHARD", <<Deposit(20240105, 50000), Deposit(20240120, 50000),
                                Deposit(20240120, 7500)>>)}

Filenames == {"a.xlsx", "b.xlsx", "notes.txt"}

\* the entries <<idx_str, label>> a generate request may carry in its labels
\* object: the exclude sentinel for each key, and a month label for entry 0
LabelKeys == {"-1", "0", "2", "3", "x"}

LabelEntries == {<<k, ENROLLMENT_FEE>> : k \in LabelKeys} \cup {<<"0", "For: Mar 2024">>}

\* str(uuid.uuid4())[:8] of the upload request that is followed to its
\* resolution, and of a session whose files are not in the upload folder
SessionIds == {"3f2a9c1e"}

OtherSessionIds == {"b07d44e2"}

NoSession == ""

\* no saved_file in the request
NoFile == <<NoSession, "">>

VARIABLES
    transactions,   \* analyze_transactions: its argument
    needs_review,   \* analyze_transactions: first component of its result
    analyzed,       \* analyze_transactions: second component of its result
    phase,          \* "input" / "analyzed" for the classifier alone;
                    \* "idle" / "uploading" for the request handlers
    upload_folder,  \* UPLOAD_FOLDER: saved handle -> workbook
    output_folder,  \* OUTPUT_FOLDER: output path -> rendered document
    session_id,     \* upload_files: session_id of the request being served
    issued,         \* the session ids drawn so far
    remaining,      \* upload_files: files of the request not yet iterated over
    results,        \* upload_files: results of the request
    last            \* what the most recent handler step did

vars == <<transactions, needs_review, analyzed, phase, upload_folder, output_folder,
          session_id, issued, remaining, results, last>>

transport_vars == <<upload_folder, output_folder, session_id, issued,
                    remaining, results, last>>

(***************************************************************************)
(* analyze_transactions                                                    *)
(***************************************************************************)

\* Counter(amounts)[a]
amount_counts(txs, a) == Cardinality({i \in DOMAIN txs : txs[i].credits_float = a})

\* position of the first occurrence of amount a: the Counter's insertion order
FirstSeen(txs, a) == CHOOSE i \in DOMAIN txs :
    /\ txs[i].credits_float = a
    /\ \A j \in 1..(i - 1) : txs[j].credits_float # a

\* amount_counts.most_common(1)[0][0]: the highest count, ties to the amount seen first
usual_surplus(txs) ==
    LET amts == {txs[i].credits_float : i \in DOMAIN txs}
    IN CHOOSE a \in amts : \A b \in amts :
          \/ amount_counts(txs, a) > amount_counts(txs, b)
          \/ /\ amount_counts(txs, a) = amount_counts(txs, b)
             /\ FirstSeen(txs, a) <= FirstSeen(txs, b)

\* t['date_obj'].strftime('%Y-%m') or 'unknown'
month_key(t) == IF t.date_obj # NoDate THEN t.date_obj \div 100 ELSE UnknownKey

\* month_groups[key]: the indices with that key, in input order
GroupIndices(txs, key) == SelectSeq([i \in 1..Len(txs) |-> i], LAMBDA i : month_key(txs[i]) = key)

\* the keys of month_groups in insertion order
RECURSIVE MonthKeysFrom(_, _, _)
MonthKeysFrom(txs, i, acc) ==
    IF i > Len(txs) THEN acc
    ELSE LET k == month_key(txs[i])
         IN MonthKeysFrom(txs, i + 1,
               IF \E j \in DOMAIN acc : acc[j] = k THEN acc ELSE Append(acc, k))

MonthKeys(txs) == MonthKeysFrom(txs, 1, <<>>)

\* sorted(indices, key=date_obj): ascending and stable
RECURSIVE InsertByDate(_, _, _)
InsertByDate(txs, sorted, i) ==
    IF sorted = <<>> THEN <<i>>
    ELSE IF txs[sorted[Len(sorted)]].date_obj <= txs[i].date_obj
         THEN Append(sorted, i)
         ELSE Append(InsertByDate(txs, SubSeq(sorted, 1, Len(sorted) - 1), i),
                     sorted[Len(sorted)])

RECURSIVE SortFrom(_, _, _, _)
SortFrom(txs, indices, n, acc) ==
    IF n > Len(indices) THEN acc
    ELSE SortFrom(txs, indices, n + 1, InsertByDate(txs, acc, indices[n]))

sorted_indices(txs, indices) == SortFrom(txs, indices, 1, <<>>)

months_back_OffByOne(num, pos) == num - pos

\* months_back = num - 1 - pos, pos the 0-based position in the sorted list
months_back(num, pos) == num - 1 - pos

\* current_month_date - relativedelta(months=k), as <<year, month>>
for_date(year, month, k) ==
    LET total == year * 12 + (month - 1) - k
    IN <<total \div 12, (total % 12) + 1>>

MonthAbbr == <<"Jan", "Feb", "Mar", "Apr", "May", "Jun",
               "Jul", "Aug", "Sep", "Oct", "Nov", "Dec">>

\* f"For: {for_date.strftime('%b %Y')}"
ForLabel(ym) == "For: " \o MonthAbbr[ym[2]] \o " " \o ToString(ym[1])

\* int(amt): truncation toward zero
IntTrunc(amt) == IF amt >= 0 THEN (amt \div 100) * 100 ELSE -(((-amt) \div 100) * 100)

show_enrollment_option_NoLimit(amt) == amt = IntTrunc(amt)

\* amt <= 300 and amt == int(amt)
show_enrollment_option(amt) == amt <= EnrollmentLimit /\ amt = IntTrunc(amt)

InitEntry_FirstFields(txs, i) ==
    [date_obj |-> txs[1].date_obj, Description |-> txs[1].Description,
     credits_float |-> txs[1].credits_float,
     status |-> "auto_ok", label |-> None, show_enrollment_option |-> FALSE]

\* entry = dict(t) with status, label and show_enrollment_option initialised
InitEntry(txs, i) ==
    [date_obj |-> txs[i].date_obj, Description |-> txs[i].Description,
     credits_float |-> txs[i].credits_float,
     status |-> "auto_ok", label |-> None, show_enrollment_option |-> FALSE]

\* the three assignments made for a transaction that needs the operator's input
MarkNeedsInput(st, idx) ==
    [st EXCEPT !.analyzed[idx].status = "needs_input",
               !.analyzed[idx].show_enrollment_option =
                   show_enrollment_option(st.analyzed[idx].credits_float),
               !.needs_review = TRUE]

MarkAutoLabeled_Silent(st, idx, lbl) ==
    [st EXCEPT !.analyzed[idx].label = lbl,
               !.analyzed[idx].status = "auto_labeled"]

\* the three assignments made for a back-labeled transaction
MarkAutoLabeled(st, idx, lbl) ==
    [st EXCEPT !.analyzed[idx].label = lbl,
               !.analyzed[idx].status = "auto_labeled",
               !.needs_review = TRUE]

MarkAutoOk(st, idx) == [st EXCEPT !.analyzed[idx].status = "auto_ok"]

\* for idx in indices: flag for review
RECURSIVE FlagAll(_, _, _)
FlagAll(st, indices, n) ==
    IF n > Len(indices) THEN st
    ELSE FlagAll(MarkNeedsInput(st, indices[n]), indices, n + 1)

\* for pos, idx in enumerate(members): label backwards from the last
RECURSIVE LabelBackwards(_, _, _, _)
LabelBackwards(st, members, key, pos) ==
    IF pos >= Len(members) THEN st
    ELSE LET idx == members[pos + 1]
             mb  == months_back(Len(members), pos)
             nxt == IF mb > 0
                    THEN MarkAutoLabeled(st, idx,
                            ForLabel(for_date(key \div 100, key % 100, mb)))
                    ELSE MarkAutoOk(st, idx)
         IN LabelBackwards(nxt, members, key, pos + 1)

MatchingIndices(txs, sorted, usual) ==
    SelectSeq(sorted, LAMBDA i : txs[i].credits_float = usual)

NonMatchingIndices(txs, sorted, usual) ==
    SelectSeq(sorted, LAMBDA i : txs[i].credits_float # usual)

ResolveMixed_MatchesNeedInput(st, txs, sorted, key, usual) ==
    FlagAll(st, sorted, 1)

\* the else branch: amounts of the month are not all the usual amount
ResolveMixed(st, txs, sorted, key, usual) ==
    LET surplus_indices     == MatchingIndices(txs, sorted, usual)
        non_surplus_indices == NonMatchingIndices(txs, sorted, usual)
        st1 == IF Len(surplus_indices) = 1 THEN MarkAutoOk(st, surplus_indices[1])
               ELSE IF Len(surplus_indices) > 1
                    THEN LabelBackwards(st, surplus_indices, key, 0)
                    ELSE st
    IN FlagAll(st1, non_surplus_indices, 1)

ResolveSingleton_AsMixed(st, txs, indices, key, usual) ==
    ResolveMixed(st, txs, indices, key, usual)

\* len(indices) == 1: a single deposit in a month
ResolveSingleton(st, txs, indices, key, usual) == MarkAutoOk(st, indices[1])

ResolveUnknown_AsMonth(st, txs, indices) ==
    IF Len(indices) = 1 THEN MarkAutoOk(st, indices[1])
    ELSE ResolveMixed(st, txs, indices, UnknownKey, usual_surplus(txs))

\* month_key == 'unknown': every member needs input
ResolveUnknown(st, txs, indices) == FlagAll(st, indices, 1)

\* one iteration of "for month_key, indices in month_groups.items()"
ResolveGroup(st, txs, key) ==
    LET indices == GroupIndices(txs, key)
        usual   == usual_surplus(txs)
    IN IF key = UnknownKey THEN ResolveUnknown(st, txs, indices)
       ELSE IF Len(indices) = 1 THEN ResolveSingleton(st, txs, indices, key, usual)
       ELSE LET amounts_this_month == [n \in 1..Len(indices) |-> txs[indices[n]].credits_float]
                all_same == Cardinality({amounts_this_month[n] : n \in DOMAIN amounts_this_month}) = 1
                sorted   == sorted_indices(txs, indices)
            IN IF all_same /\ amounts_this_month[1] = usual
               THEN LabelBackwards(st, sorted, key, 0)
               ELSE ResolveMixed(st, txs, sorted, key, usual)

RECURSIVE ResolveGroups(_, _, _, _)
ResolveGroups(st, txs, keys, n) ==
    IF n > Len(keys) THEN st
    ELSE ResolveGroups(ResolveGroup(st, txs, keys[n]), txs, keys, n + 1)

\* returns (needs_review, analyzed)
analyze_transactions(txs) ==
    IF txs = <<>> THEN [needs_review |-> FALSE, analyzed |-> <<>>]
    ELSE ResolveGroups([needs_review |-> FALSE,
                        analyzed |-> [i \in 1..Len(txs) |-> InitEntry(txs, i)]],
                       txs, MonthKeys(txs), 1)

(***************************************************************************)
(* The renderer's table and the request handlers                           *)
(*                                                                         *)
(* Requests are served one at a time.  An upload request is followed file  *)
(* by file (UploadBegin, one UploadFile per file, UploadEnd); a generate   *)
(* request is one step.  A document is represented by its transactions     *)
(* table; generate_vod_pdf raising (render_ok = FALSE) is an outcome the   *)
(* environment chooses.  One upload session is followed to its resolution; *)
(* session ids are unique, so the files of other sessions appear to it     *)
(* only as handles that are not in the upload folder.                      *)
(***************************************************************************)
Range(f) == {f[x] : x \in DOMAIN f}

Put(f, k, v) == [x \in DOMAIN f \cup {k} |-> IF x = k THEN v ELSE f[x]]

Remove(f, k) == [x \in DOMAIN f \ {k} |-> f[x]]

\* file.filename.endswith('.xlsx')
IsXlsx(filename) == filename \in {"a.xlsx", "b.xlsx"}

Handles == (SessionIds \cup OtherSessionIds) \X {f \in Filenames : IsXlsx(f)}

\* labels.items(): at most MaxLabels entries, in insertion order, keys distinct
Overlays ==
    {L \in UNION {[1..n -> LabelEntries] : n \in 0..MaxLabels} :
        \A i, j \in DOMAIN L : i # j => L[i][1] # L[j][1]}

\* int(idx_str) raises ValueError for a key that is no integer literal
IsIntLiteral(key) == key \in {"-1", "0", "2", "3"}

IntOf(key) == CASE key = "-1" -> -1 [] key = "0" -> 0 [] key = "2" -> 2 [] key = "3" -> 3

\* "Last,First" title-cased, or the name title-cased; the date stamp is the same all day
generate_filename(name) ==
    CASE name = "DOE, JANE" -> "Doe, Jane - VOD.pdf"
      [] name = "ROE, RICHARD" -> "Roe, Richard - VOD.pdf"
      [] OTHER -> "Unknown - VOD.pdf"

\* a negative index reaches the list from its end, as analyzed[idx] would
ApplyLabel_NoLowerBound(an, key, label) ==
    LET idx == IntOf(key)
    IN IF idx < Len(an) /\ -idx <= Len(an)
       THEN [an EXCEPT ![IF idx >= 0 THEN idx + 1 ELSE Len(an) + idx + 1].label = label]
       ELSE an

\* if 0 <= idx < len(analyzed): analyzed[idx]['label'] = label
ApplyLabel(an, key, label) ==
    LET idx == IntOf(key)
    IN IF 0 <= idx /\ idx < Len(an)
       THEN [an EXCEPT ![idx + 1].label = label]
       ELSE an

\* for idx_str, label in labels.items()
RECURSIVE ApplyLabels(_, _, _)
ApplyLabels(an, labels, n) ==
    IF n > Len(labels) THEN an
    ELSE ApplyLabels(ApplyLabel(an, labels[n][1], labels[n][2]), labels, n + 1)

\* [t for t in transactions if t.get('label') != 'ENROLLMENT_FEE']
visible_transactions(an) == SelectSeq(an, LAMBDA t : t.label # ENROLLMENT_FEE)

\* one row of the transactions table: the label is printed under the date when there is one
TableRow(t) ==
    [date_obj |-> t.date_obj, Description |-> t.Description,
     credits_float |-> t.credits_float,
     label |-> IF t.label # None /\ t.label # "" /\ t.label # ENROLLMENT_FEE
               THEN t.label ELSE None]

\* the transactions table of the document
generate_vod_pdf(an) ==
    LET vis == visible_transactions(an)
    IN [n \in 1..Len(vis) |-> TableRow(vis[n])]

\* analyze_transactions(transactions) for the transactions parsed from each workbook
AnalysisOf == [sh \in Sheets |-> analyze_transactions(sh.transactions)]

UploadOutcome_RenderAlways(sheet, render_ok) ==
    IF sheet.malformed THEN "parse_error"
    ELSE IF render_ok THEN "rendered"
    ELSE "render_error"

\* the path one file takes through the try block of upload_files
UploadOutcome(sheet, render_ok) ==
    IF sheet.malformed THEN "parse_error"
    ELSE IF AnalysisOf[sheet].needs_review THEN "review"
    ELSE IF render_ok THEN "rendered"
    ELSE "render_error"

\* the path a request takes through the try block of generate_with_labels
GenerateOutcome(sheet, labels, render_ok) ==
    IF sheet.malformed THEN "parse_error"
    ELSE IF \E n \in DOMAIN labels : ~IsIntLiteral(labels[n][1]) THEN "label_error"
    ELSE IF render_ok THEN "rendered"
    ELSE "render_error"

\* a document of OUTPUT_FOLDER: its table, the workbook it was rendered from,
\* and the handler and saved handle that rendered it
Document(sheet, an, via, handle) ==
    [src |-> sheet, rows |-> generate_vod_pdf(an), via |-> via, handle |-> handle]

Step(op, handle, outcome, sheet, labels, path) ==
    [op |-> op, handle |-> handle, outcome |-> outcome, sheet |-> sheet,
     labels |-> labels, path |-> path,
     analysis_returned |-> outcome \in {"review", "rendered", "render_error"}]

NoStep == Step("none", NoFile, "none", CHOOSE sh \in Sheets : sh.malformed, <<>>, NoFile)

InitTransport ==
    /\ upload_folder = <<>>
    /\ output_folder = <<>>
    /\ session_id = NoSession
    /\ issued = {}
    /\ remaining = 0
    /\ results = <<>>
    /\ last = NoStep

Init ==
    /\ transactions = <<>>
    /\ needs_review = FALSE
    /\ analyzed = <<>>
    /\ phase = "idle"
    /\ InitTransport

\* upload_files: no files in the request (400)
UploadRejected ==
    /\ phase = "idle"
    /\ last' = Step("upload", NoFile, "no_files", NoStep.sheet, <<>>, NoFile)
    /\ UNCHANGED <<transactions, needs_review, analyzed, phase, upload_folder,
                   output_folder, session_id, issued, remaining, results>>

\* upload_files: a request with 1..MaxBatch files is accepted and draws its session id
UploadBegin ==
    /\ phase = "idle"
    /\ \E n \in 1..MaxBatch : remaining' = n
    /\ \E sid \in SessionIds \ issued :
         /\ session_id' = sid
         /\ issued' = issued \cup {sid}
    /\ results' = <<>>
    /\ phase' = "uploading"
    /\ last' = NoStep
    /\ UNCHANGED <<transactions, needs_review, analyzed, upload_folder, output_folder>>

\* upload_files: one iteration of "for file in files"
UploadFile ==
    /\ phase = "uploading"
    /\ remaining > 0
    /\ remaining' = remaining - 1
    /\ \E filename \in Filenames, sheet \in Sheets, render_ok \in BOOLEAN :
         LET handle  == <<session_id, filename>>
             path    == <<session_id, generate_filename(sheet.Name)>>
             outcome == UploadOutcome(sheet, render_ok)
             r       == AnalysisOf[sheet]
         IN IF ~IsXlsx(filename)
            THEN /\ last' = Step("upload_skipped", NoFile, "skipped", NoStep.sheet, <<>>, NoFile)
                 /\ UNCHANGED <<transactions, needs_review, analyzed, upload_folder,
                                output_folder, results>>
            ELSE /\ IF outcome = "parse_error"
                    THEN UNCHANGED <<transactions, needs_review, analyzed>>
                    ELSE /\ transactions' = sheet.transactions
                         /\ needs_review' = r.needs_review
                         /\ analyzed' = r.analyzed
                 /\ upload_folder' =
                       IF outcome = "review" THEN Put(upload_folder, handle, sheet)
                       ELSE Remove(upload_folder, handle)
                 /\ output_folder' =
                       IF outcome = "rendered"
                       THEN Put(output_folder, path,
                                Document(sheet, r.analyzed, "upload", handle))
                       ELSE output_folder
                 /\ results' = Append(results,
                       [original |-> filename,
                        success |-> outcome \in {"review", "rendered"},
                        needs_review |-> outcome = "review",
                        saved_file |-> IF outcome = "review" THEN handle ELSE NoFile,
                        path |-> IF outcome = "rendered" THEN path ELSE NoFile,
                        transactions |-> IF outcome = "review" THEN r.analyzed ELSE <<>>])
                 /\ last' = Step("upload", handle, outcome, sheet, <<>>,
                                 IF outcome = "rendered" THEN path ELSE NoFile)
    /\ UNCHANGED <<phase, session_id, issued>>

\* upload_files: the response is returned
UploadEnd ==
    /\ phase = "uploading"
    /\ remaining = 0
    /\ phase' = "idle"
    /\ UNCHANGED <<transactions, needs_review, analyzed, upload_folder, output_folder,
                   session_id, issued, remaining, results, last>>

\* the saved file survives a successful generate request
GenerateRequest_KeepsFile(saved_file, labels, render_ok) ==
    IF saved_file = NoFile
    THEN /\ last' = Step("generate", NoFile, "no_file", NoStep.sheet, <<>>, NoFile)
         /\ UNCHANGED <<transactions, needs_review, analyzed, upload_folder, output_folder>>
    ELSE IF saved_file \notin DOMAIN upload_folder
    THEN /\ last' = Step("generate", saved_file, "not_found", NoStep.sheet, <<>>, NoFile)
         /\ UNCHANGED <<transactions, needs_review, analyzed, upload_folder, output_folder>>
    ELSE LET sheet   == upload_folder[saved_file]
             outcome == GenerateOutcome(sheet, labels, render_ok)
             r       == AnalysisOf[sheet]
             path    == <<saved_file[1], generate_filename(sheet.Name)>>
             overlaid == ApplyLabels(r.analyzed, labels, 1)
         IN /\ IF outcome = "parse_error"
               THEN UNCHANGED <<transactions, needs_review, analyzed>>
               ELSE /\ transactions' = sheet.transactions
                    /\ needs_review' = r.needs_review
                    /\ analyzed' = IF outcome = "label_error" THEN r.analyzed ELSE overlaid
            /\ output_folder' =
                  IF outcome = "rendered"
                  THEN Put(output_folder, path,
                           Document(sheet, overlaid, "generate", saved_file))
                  ELSE output_folder
            /\ upload_folder' = upload_folder
            /\ last' = Step("generate", saved_file, outcome, sheet,
                            IF outcome = "rendered" THEN labels ELSE <<>>,
                            IF outcome = "rendered" THEN path ELSE NoFile)

\* generate_with_labels, for a request naming saved_file with the labels object
\* labels, when rendering succeeds (render_ok) or raises
GenerateRequest(saved_file, labels, render_ok) ==
    IF saved_file = NoFile
    THEN /\ last' = Step("generate", NoFile, "no_file", NoStep.sheet, <<>>, NoFile)
         /\ UNCHANGED <<transactions, needs_review, analyzed, upload_folder, output_folder>>
    ELSE IF saved_file \notin DOMAIN upload_folder
    THEN /\ last' = Step("generate", saved_file, "not_found", NoStep.sheet, <<>>, NoFile)
         /\ UNCHANGED <<transactions, needs_review, analyzed, upload_folder, output_folder>>
    ELSE LET sheet   == upload_folder[saved_file]
             outcome == GenerateOutcome(sheet, labels, render_ok)
             r       == AnalysisOf[sheet]
             path    == <<saved_file[1], generate_filename(sheet.Name)>>
             overlaid == ApplyLabels(r.analyzed, labels, 1)
         IN /\ IF outcome = "parse_error"
               THEN UNCHANGED <<transactions, needs_review, analyzed>>
               ELSE /\ transactions' = sheet.transactions
                    /\ needs_review' = r.needs_review
                    /\ analyzed' = IF outcome = "label_error" THEN r.analyzed ELSE overlaid
            /\ output_folder' =
                  IF outcome = "rendered"
                  THEN Put(output_folder, path,
                           Document(sheet, overlaid, "generate", saved_file))
                  ELSE output_folder
            /\ upload_folder' =
                  IF outcome = "rendered" THEN Remove(upload_folder, saved_file)
                  ELSE upload_folder
            /\ last' = Step("generate", saved_file, outcome, sheet,
                            IF outcome = "rendered" THEN labels ELSE <<>>,
                            IF outcome = "rendered" THEN path ELSE NoFile)

\* generate_with_labels: the labels matter only once the saved file is found
Generate ==
    /\ phase = "idle"
    /\ \E saved_file \in Handles \cup {NoFile} :
         IF saved_file \in DOMAIN upload_folder
         THEN \E labels \in Overlays, render_ok \in BOOLEAN :
                 GenerateRequest(saved_file, labels, render_ok)
         ELSE GenerateRequest(saved_file, <<>>, TRUE)
    /\ UNCHANGED <<phase, session_id, issued, remaining, results>>

Next == UploadRejected \/ UploadBegin \/ UploadFile \/ UploadEnd \/ Generate

Spec == Init /\ [][Next]_vars

(***************************************************************************)
(* The classifier applied to every bounded input                           *)
(***************************************************************************)
InitCore ==
    /\ transactions \in TxLists
    /\ needs_review = FALSE
    /\ analyzed = <<>>
    /\ phase = "input"
    /\ InitTransport

Analyze ==
    /\ phase = "input"
    /\ LET r == analyze_transactions(transactions)
       IN /\ needs_review' = r.needs_review
          /\ analyzed' = r.analyzed
    /\ phase' = "analyzed"
    /\ UNCHANGED <<transactions, transport_vars>>

NextCore == Analyze

SpecCore == InitCore /\ [][NextCore]_vars

(***************************************************************************)
(* Properties of the classifier.  They are stated from the input           *)
(* (transactions) and the output (needs_review, analyzed) alone.           *)
(***************************************************************************)
Classified == phase = "analyzed"

Dated(i) == transactions[i].date_obj # NoDate

MonthOf(i) == transactions[i].date_obj \div 100

\* the transactions sharing i's calendar month (i itself included), for a dated i
MonthMembers(i) ==
    {j \in DOMAIN transactions : Dated(j) /\ MonthOf(j) = MonthOf(i)}

Undated == {j \in DOMAIN transactions : ~Dated(j)}

\* the members of S that follow i in date order (equal dates keep input order)
After(i, S) ==
    {j \in S : \/ transactions[j].date_obj > transactions[i].date_obj
               \/ /\ transactions[j].date_obj = transactions[i].date_obj
                  /\ j > i}

Usual == usual_surplus(transactions)

MatchesUsual(i) == transactions[i].credits_float = Usual

RECURSIVE MonthsBefore(_, _, _)
MonthsBefore(y, m, k) ==
    IF k = 0 THEN <<y, m>>
    ELSE IF m = 1 THEN MonthsBefore(y - 1, 12, k - 1)
    ELSE MonthsBefore(y, m - 1, k - 1)

\* "For: <Mon> <Year>" of the month k calendar months before i's month
LabelBefore(i, k) ==
    LET ym == MonthsBefore(MonthOf(i) \div 100, MonthOf(i) % 100, k)
    IN "For: " \o MonthAbbr[ym[2]] \o " " \o ToString(ym[1])

Escalated(i) == analyzed[i].status \in {"auto_labeled", "needs_input"}

\* C1: needs_review is true exactly when some annotated entry is auto_labeled
\* or needs_input; the empty list and an all-auto_ok list give false.
C1_NeedsReviewIffEscalated ==
    Classified => (needs_review <=> \E i \in DOMAIN analyzed : Escalated(i))

\* a list escalated by a back-labeled deposit alone
C1_Witness ==
    /\ Classified
    /\ needs_review
    /\ \E i \in DOMAIN analyzed : analyzed[i].status = "auto_labeled"
    /\ \A i \in DOMAIN analyzed : analyzed[i].status # "needs_input"

\* i belongs to a month of N >= 2 deposits that all equal the usual amount
UniformUsualMonth(i) ==
    /\ Dated(i)
    /\ Cardinality(MonthMembers(i)) >= 2
    /\ \A j \in MonthMembers(i) : MatchesUsual(j)

\* C2: in a month of N >= 2 identical deposits equal to the usual amount, the
\* chronologically last is auto_ok without a label and the member k places
\* before it is auto_labeled "For:" the month k calendar months earlier.
C2_UniformMonthLabeledBackwards ==
    Classified =>
      \A i \in DOMAIN transactions : UniformUsualMonth(i) =>
        LET k == Cardinality(After(i, MonthMembers(i)))
        IN IF k = 0
           THEN analyzed[i].status = "auto_ok" /\ analyzed[i].label = None
           ELSE analyzed[i].status = "auto_labeled" /\ analyzed[i].label = LabelBefore(i, k)

\* three $500 deposits in January 2024, not in date order: Nov 2023, Dec 2023, none
C2_Witness ==
    /\ Classified
    /\ Len(transactions) = 3
    /\ \A i \in DOMAIN transactions : UniformUsualMonth(i) /\ MonthOf(i) = 202401
    /\ transactions[1].date_obj > transactions[2].date_obj
    /\ analyzed[2].label = "For: Nov 2023"
    /\ analyzed[3].label = "For: Dec 2023"
    /\ analyzed[1].status = "auto_ok"

\* i belongs to a month of N >= 2 deposits that are not all the usual amount
MixedMonth(i) ==
    /\ Dated(i)
    /\ Cardinality(MonthMembers(i)) >= 2
    /\ \E j \in MonthMembers(i) : ~MatchesUsual(j)

\* C3: in a month of two or more deposits not all equal to the usual amount,
\* every deposit that differs from it is needs_input; among those that match,
\* the last is auto_ok without a label and the one k places before it (counting
\* matches only) is auto_labeled "For:" the month k calendar months earlier.
C3_MixedMonthResolution ==
    Classified =>
      \A i \in DOMAIN transactions : MixedMonth(i) =>
        IF ~MatchesUsual(i) THEN analyzed[i].status = "needs_input"
        ELSE LET matches == {j \in MonthMembers(i) : MatchesUsual(j)}
                 k == Cardinality(After(i, matches))
             IN IF k = 0
                THEN analyzed[i].status = "auto_ok" /\ analyzed[i].label = None
                ELSE analyzed[i].status = "auto_labeled" /\ analyzed[i].label = LabelBefore(i, k)

\* two matching deposits around a differing one in the same month
C3_Witness ==
    /\ Classified
    /\ \E i, j, n \in DOMAIN transactions :
         /\ MixedMonth(i) /\ j \in MonthMembers(i) /\ n \in MonthMembers(i)
         /\ i # j
         /\ MatchesUsual(i) /\ MatchesUsual(j) /\ ~MatchesUsual(n)
         /\ analyzed[i].status = "auto_labeled"
         /\ analyzed[j].status = "auto_ok"
         /\ analyzed[n].status = "needs_input"

\* C4 as stated: the only member of its group, the group of undated
\* transactions included, is auto_ok without a label.
C4_Original_AnySingletonAutoOk ==
    Classified =>
      \A i \in DOMAIN transactions :
        (IF Dated(i) THEN MonthMembers(i) = {i} ELSE Undated = {i}) =>
          analyzed[i].status = "auto_ok" /\ analyzed[i].label = None

\* C4 as amended: the only deposit of a calendar month is auto_ok without a
\* label, whatever its amount.
C4_DatedSingletonAutoOk ==
    Classified =>
      \A i \in DOMAIN transactions :
        (Dated(i) /\ MonthMembers(i) = {i}) =>
          analyzed[i].status = "auto_ok" /\ analyzed[i].label = None

\* a lone deposit of its month whose amount is not the usual one
C4_Witness ==
    /\ Classified
    /\ \E i \in DOMAIN transactions :
         /\ Dated(i) /\ MonthMembers(i) = {i}
         /\ ~MatchesUsual(i)
         /\ analyzed[i].status = "auto_ok"

\* C5: a transaction without a date is needs_input, whatever its amount and
\* however many other undated transactions there are.
C5_UndatedNeedsInput ==
    Classified =>
      \A i \in DOMAIN transactions : ~Dated(i) => analyzed[i].status = "needs_input"

\* the only undated transaction, and of the usual amount
C5_Witness ==
    /\ Classified
    /\ \E i \in DOMAIN transactions :
         /\ Undated = {i}
         /\ MatchesUsual(i)
         /\ analyzed[i].status = "needs_input"

WholeDollars(amt) == amt % 100 = 0

\* C6 as stated: review_hint is true exactly for the needs_input entries whose
\* amount is a non-negative whole number of dollars, at most 300.
C6_Original_HintIffNonNegativeWhole ==
    Classified =>
      \A i \in DOMAIN analyzed :
        analyzed[i].show_enrollment_option <=>
          /\ analyzed[i].status = "needs_input"
          /\ analyzed[i].credits_float >= 0
          /\ WholeDollars(analyzed[i].credits_float)
          /\ analyzed[i].credits_float <= EnrollmentLimit

\* C6 as amended: review_hint is true exactly for the needs_input entries whose
\* amount is a whole number of dollars, negative or not, at most 300.
C6_HintIffWholeAtMostLimit ==
    Classified =>
      \A i \in DOMAIN analyzed :
        analyzed[i].show_enrollment_option <=>
          /\ analyzed[i].status = "needs_input"
          /\ WholeDollars(analyzed[i].credits_float)
          /\ analyzed[i].credits_float <= EnrollmentLimit

\* needs_input entries on each side of the rule: -$5.00 hinted, $75.50 and $500.00 not
C6_Witness ==
    /\ Classified
    /\ \E i, j, n \in DOMAIN analyzed :
         /\ analyzed[i].status = "needs_input" /\ analyzed[i].credits_float < 0
         /\ analyzed[i].show_enrollment_option
         /\ analyzed[j].status = "needs_input" /\ ~WholeDollars(analyzed[j].credits_float)
         /\ ~analyzed[j].show_enrollment_option
         /\ analyzed[n].status = "needs_input" /\ analyzed[n].credits_float > EnrollmentLimit
         /\ ~analyzed[n].show_enrollment_option

\* C7: the annotated list has the length of the input, and entry i carries
\* the date, description and amount of input transaction i.
C7_OrderPreserved ==
    Classified =>
      /\ Len(analyzed) = Len(transactions)
      /\ \A i \in DOMAIN transactions :
           /\ analyzed[i].date_obj = transactions[i].date_obj
           /\ analyzed[i].Description = transactions[i].Description
           /\ analyzed[i].credits_float = transactions[i].credits_float

\* a month whose members arrive in descending date order, with distinct fields
C7_Witness ==
    /\ Classified
    /\ Len(transactions) = 3
    /\ MonthOf(1) = MonthOf(2) /\ Dated(1)
    /\ transactions[1].date_obj > transactions[2].date_obj
    /\ transactions[1].Description # transactions[2].Description
    /\ transactions[1].credits_float # transactions[2].credits_float
    /\ analyzed[1].status # analyzed[2].status

(***************************************************************************)
(* Properties of the request handlers                                      *)
(***************************************************************************)
\* the most recent step was a generate request that rendered its document
Resolved == last.op = "generate" /\ last.outcome = "rendered"

\* key names a transaction of a list of n entries
InRangeKey(key, n) == IsIntLiteral(key) /\ 0 <= IntOf(key) /\ IntOf(key) < n

\* the overlay assigns nothing but the exclude sentinel to entries of the list
ExclusionOverlay(labels, n) ==
    \A e \in Range(labels) : InRangeKey(e[1], n) => e[2] = ENROLLMENT_FEE

\* the positions (1-based) the overlay excludes
Excluded(labels, n) ==
    {IntOf(e[1]) + 1 : e \in {x \in Range(labels) : InRangeKey(x[1], n)}}

\* C8: an overlay assigning the exclude sentinel to index i removes exactly
\* that transaction from the document's table and leaves every other
\* transaction with the label analyze_transactions gave it; overlay indices
\* outside the list change nothing.
C8_ExcludeRemovesOnlyThatRow ==
    Resolved =>
      LET assigned == analyze_transactions(last.sheet.transactions).analyzed
          n        == Len(assigned)
          kept     == SelectSeq([i \in 1..n |-> i],
                                LAMBDA i : i \notin Excluded(last.labels, n))
          rows     == output_folder[last.path].rows
      IN ExclusionOverlay(last.labels, n) =>
           /\ Len(rows) = Len(kept)
           /\ \A k \in 1..Len(kept) :
                /\ rows[k].date_obj = assigned[kept[k]].date_obj
                /\ rows[k].Description = assigned[kept[k]].Description
                /\ rows[k].credits_float = assigned[kept[k]].credits_float
                /\ rows[k].label = assigned[kept[k]].label

\* the $75.00 deposit (index 2) is excluded; the back-labeled deposit keeps its label
C8_Witness ==
    /\ Resolved
    /\ last.labels = <<<<"2", ENROLLMENT_FEE>>>>
    /\ Len(last.sheet.transactions) = 3
    /\ Len(output_folder[last.path].rows) = 2
    /\ output_folder[last.path].rows[1].label = "For: Dec 2023"
    /\ \A k \in 1..2 : output_folder[last.path].rows[k].credits_float = 50000

\* C9: once a file of an upload has been rendered or has failed, and once a
\* generate request has rendered or has failed with an error, the saved
\* upload file of that handle is gone from the upload folder.
C9_SavedFileDeletedOnceResolvedOrFailed ==
    (/\ last.op \in {"upload", "generate"}
     /\ last.outcome \in {"rendered", "parse_error", "label_error", "render_error"})
      => last.handle \notin DOMAIN upload_folder

\* the workbook needs review: one of its transactions is auto_labeled or needs_input
SheetNeedsReview(sheet) ==
    \E i \in DOMAIN analyze_transactions(sheet.transactions).analyzed :
       analyze_transactions(sheet.transactions).analyzed[i].status
          \in {"auto_labeled", "needs_input"}

\* the upload step just taken left a document rendered from its file
UploadRendered ==
    \E p \in DOMAIN output_folder :
       /\ output_folder[p].src = last.sheet
       /\ output_folder[p].via = "upload"
       /\ output_folder[p].handle = last.handle

\* no document was rendered by an upload from a workbook that needs review;
\* such a document comes from a generate request naming a handle of its session
ReviewedBeforeCommitted ==
    \A p \in DOMAIN output_folder :
       /\ output_folder[p].via = "upload" => ~SheetNeedsReview(output_folder[p].src)
       /\ SheetNeedsReview(output_folder[p].src) =>
            /\ output_folder[p].via = "generate"
            /\ output_folder[p].handle \in Handles
            /\ output_folder[p].handle[1] = p[1]

\* C10 as stated: an upload renders a document for a file exactly when
\* analyze_transactions returned needs_review = false for it, and a workbook
\* with an auto_labeled or needs_input transaction is rendered only by a
\* later generate request.
C10_Original_RenderedIffNoReview ==
    /\ (last.op = "upload" /\ last.analysis_returned /\ ~needs_review) => UploadRendered
    /\ ReviewedBeforeCommitted

\* C10 as amended: an upload renders a document for a file exactly when
\* analyze_transactions returned needs_review = false for it and rendering
\* did not raise; a workbook with an auto_labeled or needs_input transaction
\* is rendered only by a later generate request.
C10_RenderedIffNoReviewAndRenderOk ==
    /\ (/\ last.op = "upload" /\ last.analysis_returned /\ ~needs_review
        /\ last.outcome # "render_error") => UploadRendered
    /\ (last.op = "upload" /\ last.outcome = "render_error") => ~needs_review
    /\ ReviewedBeforeCommitted

\* a workbook with an auto_labeled deposit was uploaded: it is kept for review
\* and no document has been rendered from it
C10_Witness ==
    /\ last.op = "upload"
    /\ last.outcome = "review"
    /\ \E i \in DOMAIN analyzed : analyzed[i].status = "auto_labeled"
    /\ last.handle \in DOMAIN upload_folder
    /\ \A p \in DOMAIN output_folder : output_folder[p].src # last.sheet

\* the step is one iteration of the loop over the files of a batch
FileStep == phase = "uploading" /\ remaining' = remaining - 1

\* the file of the step failed while it was extracted, classified or rendered
FileFailed == last'.op = "upload" /\ last'.outcome \in {"parse_error", "render_error"}

\* the step added one entry to the results, for the file it iterated over
OneEntryForFile ==
    /\ Len(results') = Len(results) + 1
    /\ last'.op = "upload"
    /\ results'[Len(results')].original = last'.handle[2]

\* the results and the documents of the files iterated over before are as they were
SiblingsAsBefore ==
    /\ SubSeq(results', 1, Len(results)) = results
    /\ output_folder' = output_folder

\* each file of a batch gets one entry of its own in the results
EveryFileHasOneResult == [][FileStep => OneEntryForFile]_vars

\* the part of C11 about failures: a file that fails gets an entry with success
\* false, and the entries and documents of its siblings stay as they were
FailureLeavesSiblings ==
    [][(FileStep /\ FileFailed) =>
          /\ OneEntryForFile
          /\ ~results'[Len(results')].success
          /\ SiblingsAsBefore]_vars

\* C11: every file submitted in a batch has exactly one entry in the results,
\* and a file that fails while it is extracted, classified or rendered leaves
\* the result entries and the documents of its sibling files as they would be
\* without it.
C11_EachFileReportsItsOwnStatus ==
    [][FileStep =>
          /\ OneEntryForFile
          /\ FileFailed => (~results'[Len(results')].success /\ SiblingsAsBefore)]_vars

\* the upload request of h's session is over and h is not in the upload folder
HandleGone(h) ==
    /\ h \notin DOMAIN upload_folder
    /\ h[1] \in issued
    /\ ~(phase = "uploading" /\ session_id = h[1])

\* a generate request that renders leaves the handle it named gone
ConsumeRemoves ==
    [][(phase = "idle" /\ last'.op = "generate" /\ last'.outcome = "rendered")
          => /\ last'.handle \notin DOMAIN upload_folder'
             /\ last'.handle[1] \in issued'
             /\ ~(phase' = "uploading" /\ session_id' = last'.handle[1])]_vars

\* no request brings a gone handle back
GoneStaysGone == [][\A h \in Handles : HandleGone(h) => HandleGone(h)']_vars

\* what the two above give by induction: a handle a successful generate
\* request has consumed is never in the upload folder again
ConsumedStaysGone ==
    \A h \in Handles :
       []((Resolved /\ last.handle = h) => [](h \notin DOMAIN upload_folder))

\* the upload folder holds files of the sessions that were issued, and no others
OnlyIssuedSessionsSaved == \A h \in DOMAIN upload_folder : h[1] \in issued

\* a generate request naming a handle that is not in the upload folder returns
\* the not-found error and leaves both folders as they were
AbsentHandleNotFound ==
    [][(/\ phase = "idle"
        /\ last'.op = "generate"
        /\ last'.handle # NoFile
        /\ last'.handle \notin DOMAIN upload_folder)
          => /\ last'.outcome = "not_found"
             /\ UNCHANGED <<upload_folder, output_folder>>]_vars

\* C12: after a generate request for a saved handle has rendered, the handle
\* is out of the upload folder for good, as is every handle that was never
\* saved; and a generate request naming a handle that is not in the upload
\* folder returns the not-found error, writes no document and changes no
\* stored file.
C12_HandleConsumedAtMostOnce ==
    /\ ConsumeRemoves
    /\ GoneStaysGone
    /\ []OnlyIssuedSessionsSaved
    /\ AbsentHandleNotFound

\* a second generate request for a handle whose document was rendered by the
\* first is answered not-found
C12_Witness ==
    /\ last.op = "generate"
    /\ last.outcome = "not_found"
    /\ \E p \in DOMAIN output_folder :
          /\ output_folder[p].via = "generate"
          /\ output_folder[p].handle = last.handle

\* upload_files has iterated over every file and is about to return its response
ResponseReady == phase = "uploading" /\ remaining = 0

\* C13: when an upload request returns its response, every result with
\* needs_review true names a saved_file that is in the upload folder, whatever
\* the other files of the batch were.
C13_ReviewHandleSavedAtResponse ==
    ResponseReady =>
      \A n \in DOMAIN results :
         results[n].needs_review => results[n].saved_file \in DOMAIN upload_folder

====
